---- MODULE Spec2Model ----
(***************************************************************************)
(* Identity and access-control core of multi-agency-workflow-automation:   *)
(* GovernmentAuthenticationManager (credential verification, agency        *)
(* profile registry, workflow authorization) and X509CertificateValidator. *)
(*                                                                         *)
(* Strings whose content the code inspects (organizationUnit, agencyId)    *)
(* are sequences of one-character strings; JavaScript `undefined` for such *)
(* a field is the one-element sequence Undefined.  A call that throws is   *)
(* a result record of kind "threw".                                        *)
(***************************************************************************)
EXTENDS Integers, Sequences, FiniteSets, TLC

VARIABLES agencyProfiles, latest, now, last, trustedRootCAs, tokens, expired,
          workflow, visited, agencyConfigurations, registeredConfigurations

\* the bid workflow under observation and the workflow engine's registry
workflowVars == <<workflow, visited, agencyConfigurations, registeredConfigurations>>

vars == <<agencyProfiles, latest, now, last, trustedRootCAs, tokens, expired,
          workflowVars>>

(***************************************************************************)
(* Bounds                                                                  *)
(***************************************************************************)
MaxOuLen == 2
MaxNow == 1
MaxChainLen == 2
MaxDeepChainLen == 6
MaxTokens == 2
MaxStageCalls == 5
MaxRules == 2

(***************************************************************************)
(* Values                                                                  *)
(***************************************************************************)
Chars == {"D", "O", ","}
Delimiter == ","
Undefined == <<"undefined">>
Absent == [absent |-> TRUE]

OuStrings == UNION {[1..k -> Chars] : k \in 0..MaxOuLen}
OrganizationUnits == OuStrings \cup {Undefined}

AgencyIds == {<<"D">>, <<"O">>}

AccessLevel == {"RESTRICTED", "STANDARD", "PRIVILEGED", "EXECUTIVE", "SYSTEM_ADMIN"}
UnrecognizedLevel == "BOGUS"
AccessLevelOrder ==
  [RESTRICTED |-> 0, STANDARD |-> 1, PRIVILEGED |-> 2, EXECUTIVE |-> 3, SYSTEM_ADMIN |-> 4]

PrototypeKeys == {"constructor"}
WorkflowTypes == {"BID_SUBMISSION", "BID_TRACKING"} \cup PrototypeKeys

(***************************************************************************)
(* Agency profiles                                                         *)
(***************************************************************************)
MandatoryStep == [type |-> "SECONDARY_CREDENTIAL", mandatory |-> TRUE]
OptionalStep == [type |-> "BIOMETRIC", mandatory |-> FALSE]

defenseLogisticsAgencyControls ==
  [w \in {"BID_SUBMISSION", "BID_TRACKING"} |->
     IF w = "BID_SUBMISSION" THEN <<"STANDARD", "PRIVILEGED">>
                             ELSE <<"PRIVILEGED", "EXECUTIVE">>]

defenseLogisticsAgencyProfile ==
  [agencyId |-> <<"D">>,
   mandatoryRoleVerification |-> TRUE,
   additionalVerificationSteps |-> <<MandatoryStep>>,
   workflowAccessControls |-> defenseLogisticsAgencyControls]

ProfileVariants ==
  { [mandatoryRoleVerification |-> TRUE,
     additionalVerificationSteps |-> <<MandatoryStep>>,
     workflowAccessControls |-> defenseLogisticsAgencyControls],
    [mandatoryRoleVerification |-> FALSE,
     additionalVerificationSteps |-> <<>>,
     workflowAccessControls |->
       [w \in {"BID_TRACKING"} |-> <<"PRIVILEGED", "EXECUTIVE">>]],
    [mandatoryRoleVerification |-> FALSE,
     additionalVerificationSteps |-> <<OptionalStep>>,
     workflowAccessControls |->
       [w \in {"BID_SUBMISSION", "BID_TRACKING"} |->
          IF w = "BID_SUBMISSION" THEN <<"STANDARD", "PRIVILEGED">> ELSE <<>>]],
    [mandatoryRoleVerification |-> FALSE,
     additionalVerificationSteps |-> <<OptionalStep, MandatoryStep>>,
     workflowAccessControls |->
       [w \in {"BID_SUBMISSION"} |-> <<"RESTRICTED">>]] }

AgencyAuthenticationProfile ==
  { [agencyId |-> a,
     mandatoryRoleVerification |-> v.mandatoryRoleVerification,
     additionalVerificationSteps |-> v.additionalVerificationSteps,
     workflowAccessControls |-> v.workflowAccessControls] :
       a \in AgencyIds, v \in ProfileVariants }

NoProfiles == [a \in {} |-> Absent]

\* new Map() of the workflow engine
NoConfigurations == [a \in {} |-> Absent]

(***************************************************************************)
(* Certificates.  An element of a certificate chain is either a string     *)
(* that parses to a certificate or one that does not (parseable = FALSE).  *)
(***************************************************************************)
MAX_CHAIN_DEPTH == 5
ALLOWED_SIGNATURE_ALGORITHMS ==
  {"SHA256withRSA", "SHA384withRSA", "SHA512withRSA", "ECDSA_SHA256", "ECDSA_SHA384"}
REQUIRED_KEY_USAGE == {"digitalSignature", "keyEncipherment"}
CertificatePurpose == {"AUTHENTICATION", "DIGITAL_SIGNATURE", "ENCRYPTION"}

Cert(subject, notBefore, notAfter, alg, usage, publicKey, signedBy) ==
  [parseable |-> TRUE, subject |-> subject, notBefore |-> notBefore,
   notAfter |-> notAfter, signatureAlgorithm |-> alg, keyUsage |-> usage,
   publicKey |-> publicKey, signedBy |-> signedBy]

RootCert == Cert("root", 0, 9, "SHA256withRSA", REQUIRED_KEY_USAGE, "k1", "k1")
IntermediateCert == Cert("inter", 0, 9, "SHA384withRSA", REQUIRED_KEY_USAGE, "k2", "k1")
LeafCert == Cert("leaf", 0, 9, "ECDSA_SHA256", REQUIRED_KEY_USAGE, "k3", "k2")
ShortLivedCert == Cert("short", 0, 0, "SHA256withRSA", REQUIRED_KEY_USAGE, "k1", "k1")
WeakAlgorithmCert == Cert("weak", 0, 9, "MD5withRSA", REQUIRED_KEY_USAGE, "k1", "k1")
NoEnciphermentCert == Cert("sigonly", 0, 9, "SHA256withRSA", {"digitalSignature"}, "k1", "k1")
DefectiveCert == Cert("defective", 5, 9, "MD5withRSA", {}, "k4", "k5")
OtherRootCert == Cert("other", 0, 9, "SHA256withRSA", REQUIRED_KEY_USAGE, "k4", "k4")
UnparseableCert == [parseable |-> FALSE]

(***************************************************************************)
(* X509CertificateValidator                                                *)
(***************************************************************************)
parseCertificate(raw) == raw

isWithinValidityPeriod(cert, t) == cert.notBefore <= t /\ t <= cert.notAfter

isAllowedSignatureAlgorithm(cert) ==
  cert.signatureAlgorithm \in ALLOWED_SIGNATURE_ALGORITHMS

validateKeyUsage(cert, purpose) == REQUIRED_KEY_USAGE \subseteq cert.keyUsage

validateCertificateSignature(cert, issuer) == cert.signedBy = issuer.publicKey

verifyRootCA(cert, anchors) == cert \in anchors

NoError == "NONE"

createValidationFailure(code) ==
  [valid |-> FALSE, error |-> code, details |-> Absent]

\* a certificate that does not parse is skipped instead of ending the run
RECURSIVE validateChainFrom_SkipUnparseable(_, _, _, _, _)
validateChainFrom_SkipUnparseable(certificateChain, purpose, anchors, t, i) ==
  IF i > Len(certificateChain)
  THEN [valid |-> TRUE, error |-> NoError,
        details |-> [chainLength |-> Len(certificateChain),
                     validationTimestamp |-> t]]
  ELSE IF ~certificateChain[i].parseable
  THEN validateChainFrom_SkipUnparseable(certificateChain, purpose, anchors, t, i + 1)
  ELSE LET currentCert == parseCertificate(certificateChain[i]) IN
    IF ~isWithinValidityPeriod(currentCert, t)
    THEN createValidationFailure("CERTIFICATE_EXPIRED")
    ELSE IF ~isAllowedSignatureAlgorithm(currentCert)
    THEN createValidationFailure("UNSUPPORTED_SIGNATURE_ALGORITHM")
    ELSE IF ~validateKeyUsage(currentCert, purpose)
    THEN createValidationFailure("INVALID_KEY_USAGE")
    ELSE IF i > 1 /\ certificateChain[i - 1].parseable
              /\ ~validateCertificateSignature(
                    currentCert, parseCertificate(certificateChain[i - 1]))
    THEN createValidationFailure("INVALID_SIGNATURE")
    ELSE IF i = Len(certificateChain) /\ ~verifyRootCA(currentCert, anchors)
    THEN createValidationFailure("UNTRUSTED_ROOT")
    ELSE validateChainFrom_SkipUnparseable(certificateChain, purpose, anchors, t, i + 1)

RECURSIVE validateChainFrom(_, _, _, _, _)
validateChainFrom(certificateChain, purpose, anchors, t, i) ==
  IF i > Len(certificateChain)
  THEN [valid |-> TRUE, error |-> NoError,
        details |-> [chainLength |-> Len(certificateChain),
                     validationTimestamp |-> t]]
  ELSE IF ~certificateChain[i].parseable
  THEN createValidationFailure("VALIDATION_ERROR")
  ELSE LET currentCert == parseCertificate(certificateChain[i]) IN
    IF ~isWithinValidityPeriod(currentCert, t)
    THEN createValidationFailure("CERTIFICATE_EXPIRED")
    ELSE IF ~isAllowedSignatureAlgorithm(currentCert)
    THEN createValidationFailure("UNSUPPORTED_SIGNATURE_ALGORITHM")
    ELSE IF ~validateKeyUsage(currentCert, purpose)
    THEN createValidationFailure("INVALID_KEY_USAGE")
    ELSE IF i > 1 /\ ~validateCertificateSignature(
                        currentCert, parseCertificate(certificateChain[i - 1]))
    THEN createValidationFailure("INVALID_SIGNATURE")
    ELSE IF i = Len(certificateChain) /\ ~verifyRootCA(currentCert, anchors)
    THEN createValidationFailure("UNTRUSTED_ROOT")
    ELSE validateChainFrom(certificateChain, purpose, anchors, t, i + 1)

\* the depth comparison is >= instead of >
validateCertificate_DepthOffByOne(certificateChain, purpose, anchors, t) ==
  IF Len(certificateChain) >= MAX_CHAIN_DEPTH
  THEN createValidationFailure("CHAIN_TOO_DEEP")
  ELSE validateChainFrom(certificateChain, purpose, anchors, t, 1)

validateCertificate(certificateChain, purpose, anchors, t) ==
  IF Len(certificateChain) > MAX_CHAIN_DEPTH
  THEN createValidationFailure("CHAIN_TOO_DEEP")
  ELSE validateChainFrom(certificateChain, purpose, anchors, t, 1)

(***************************************************************************)
(* SecureTokenManager configuration                                        *)
(***************************************************************************)
TOKEN_EXPIRATION == 30 * 60 * 1000

(***************************************************************************)
(* Credentials                                                             *)
(***************************************************************************)
CardSerialNumbers == {"S1", "S2"}
CredentialChains == {<<RootCert>>, <<OtherRootCert>>}

CAC_PIV_Credentials ==
  [cardSerialNumber : CardSerialNumbers,
   organizationUnit : OrganizationUnits,
   userDistinguishedName : {"CN=U1"},
   accessLevel : AccessLevel \cup {UnrecognizedLevel},
   certificateChain : CredentialChains]

\* the credentials presented to authorizeWorkflowAccess, which reads only
\* organizationUnit and accessLevel
AuthorizationCredentials ==
  {c \in CAC_PIV_Credentials :
     c.cardSerialNumber = "S1" /\ c.certificateChain = <<RootCert>>}

NullCredentials == [null |-> TRUE]

(***************************************************************************)
(* GovernmentAuthenticationManager                                         *)
(***************************************************************************)
Thrown == <<"TypeError">>

\* ou.split(',')[0]
RECURSIVE FirstSegment(_)
FirstSegment(s) ==
  IF s = <<>> \/ Head(s) = Delimiter THEN <<>>
  ELSE <<Head(s)>> \o FirstSegment(Tail(s))

extractAgency_WholeUnit(ou) ==
  IF ou = Undefined THEN Thrown ELSE ou

extractAgencyFromOrganizationalUnit(ou) ==
  IF ou = Undefined THEN Thrown ELSE FirstSegment(ou)

validateCertificateChain(chain) == [valid |-> TRUE, errorMessage |-> "undefined"]

verifyOrganizationalUnit(ou) == [valid |-> TRUE, errorMessage |-> "undefined"]

checkAccessLevelAuthorization(credentials) ==
  [valid |-> TRUE, errorMessage |-> "undefined"]

generateSecureSessionToken(credentials, t) ==
  [prefix |-> "GOV_AUTH", time |-> t, serial |-> credentials.cardSerialNumber]

\* the catch block; generated lists the tokens built before the fault
AuthenticationSystemError(generated) ==
  [kind |-> "resolved", authenticated |-> FALSE, sessionToken |-> Absent,
   userProfile |-> Absent, errorDetails |-> <<"AUTHENTICATION_SYSTEM_ERROR">>,
   generated |-> generated]

aggregateValidation_FirstFailureOnly(credentials, validationResults, t) ==
  LET failedValidations == SelectSeq(validationResults, LAMBDA r : ~r.valid) IN
  IF Len(failedValidations) > 0
  THEN [kind |-> "resolved", authenticated |-> FALSE, sessionToken |-> Absent,
        userProfile |-> Absent,
        errorDetails |-> <<failedValidations[1].errorMessage>>,
        generated |-> <<>>]
  ELSE LET sessionToken == generateSecureSessionToken(credentials, t)
           agency == extractAgencyFromOrganizationalUnit(credentials.organizationUnit)
       IN IF agency = Thrown
          THEN AuthenticationSystemError(<<sessionToken>>)
          ELSE [kind |-> "resolved", authenticated |-> TRUE,
                sessionToken |-> sessionToken,
                userProfile |-> [userId |-> credentials.userDistinguishedName,
                                 accessLevel |-> credentials.accessLevel,
                                 agency |-> agency],
                errorDetails |-> <<>>,
                generated |-> <<sessionToken>>]

\* the body of the try block once the three validation results are known
aggregateValidation(credentials, validationResults, t) ==
  LET failedValidations == SelectSeq(validationResults, LAMBDA r : ~r.valid) IN
  IF Len(failedValidations) > 0
  THEN [kind |-> "resolved", authenticated |-> FALSE, sessionToken |-> Absent,
        userProfile |-> Absent,
        errorDetails |-> [i \in 1..Len(failedValidations) |->
                            failedValidations[i].errorMessage],
        generated |-> <<>>]
  ELSE LET sessionToken == generateSecureSessionToken(credentials, t)
           agency == extractAgencyFromOrganizationalUnit(credentials.organizationUnit)
       IN IF agency = Thrown
          THEN AuthenticationSystemError(<<sessionToken>>)
          ELSE [kind |-> "resolved", authenticated |-> TRUE,
                sessionToken |-> sessionToken,
                userProfile |-> [userId |-> credentials.userDistinguishedName,
                                 accessLevel |-> credentials.accessLevel,
                                 agency |-> agency],
                errorDetails |-> <<>>,
                generated |-> <<sessionToken>>]

\* the agency is extracted outside the try block
verifyCAC_PIV_Credentials_Uncaught(credentials, t) ==
  IF credentials = NullCredentials
  THEN AuthenticationSystemError(<<>>)
  ELSE IF credentials.organizationUnit = Undefined
  THEN [kind |-> "rejected", authenticated |-> FALSE, sessionToken |-> Absent,
        userProfile |-> Absent, errorDetails |-> <<"TypeError">>,
        generated |-> <<generateSecureSessionToken(credentials, t)>>]
  ELSE aggregateValidation(credentials,
         <<validateCertificateChain(credentials.certificateChain),
           verifyOrganizationalUnit(credentials.organizationUnit),
           checkAccessLevelAuthorization(credentials)>>, t)

verifyCAC_PIV_Credentials(credentials, t) ==
  IF credentials = NullCredentials
  THEN AuthenticationSystemError(<<>>)
  ELSE aggregateValidation(credentials,
         <<validateCertificateChain(credentials.certificateChain),
           verifyOrganizationalUnit(credentials.organizationUnit),
           checkAccessLevelAuthorization(credentials)>>, t)

\* the GovernmentAuthenticationManager of the application component
AppVerifyCAC_PIV_Credentials(credentials) ==
  IF credentials = NullCredentials
  THEN AuthenticationSystemError(<<>>)
  ELSE [kind |-> "resolved", authenticated |-> TRUE, sessionToken |-> Absent,
        userProfile |-> [userId |-> credentials.userDistinguishedName,
                         accessLevel |-> credentials.accessLevel,
                         agency |-> credentials.organizationUnit],
        errorDetails |-> <<>>,
        generated |-> <<>>]

\* the registry key of an organizational unit: its agency identifier
profileKey(organizationUnit) ==
  IF organizationUnit = Undefined THEN Undefined
  ELSE FirstSegment(organizationUnit)

getAgencyProfile(profiles, organizationUnit) ==
  IF profileKey(organizationUnit) \in DOMAIN profiles
  THEN profiles[profileKey(organizationUnit)]
  ELSE Absent

\* agencyProfile.workflowAccessControls[workflowType] || []
NotAnArray == <<"function">>
permittedAccessLevels(agencyProfile, workflowType) ==
  IF workflowType \in DOMAIN agencyProfile.workflowAccessControls
  THEN agencyProfile.workflowAccessControls[workflowType]
  ELSE IF workflowType \in PrototypeKeys THEN NotAnArray
  ELSE <<>>

includes(array, x) == \E i \in 1..Len(array) : array[i] = x

Decision(authorized, reason) ==
  [kind |-> "returned", authorized |-> authorized, reason |-> reason]

DecisionThrown == [kind |-> "threw", authorized |-> FALSE, reason |-> "TypeError"]

authorizeWorkflowAccess_DefaultAllow(profiles, credentials, workflowType) ==
  LET agencyProfile == getAgencyProfile(profiles, credentials.organizationUnit) IN
  IF agencyProfile = Absent
  THEN Decision(TRUE, "ACCESS_GRANTED")
  ELSE LET permitted == permittedAccessLevels(agencyProfile, workflowType) IN
       IF permitted = NotAnArray
       THEN DecisionThrown
       ELSE LET isAuthorized == includes(permitted, credentials.accessLevel) IN
            Decision(isAuthorized,
                     IF isAuthorized THEN "ACCESS_GRANTED"
                                     ELSE "INSUFFICIENT_PRIVILEGES")

authorizeWorkflowAccess_Threshold(profiles, credentials, workflowType) ==
  LET agencyProfile == getAgencyProfile(profiles, credentials.organizationUnit) IN
  IF agencyProfile = Absent
  THEN Decision(FALSE, "UNKNOWN_AGENCY")
  ELSE LET permitted == permittedAccessLevels(agencyProfile, workflowType) IN
       IF permitted = NotAnArray
       THEN DecisionThrown
       ELSE LET isAuthorized ==
                  /\ credentials.accessLevel \in AccessLevel
                  /\ \E i \in 1..Len(permitted) :
                       AccessLevelOrder[permitted[i]]
                         <= AccessLevelOrder[credentials.accessLevel]
            IN Decision(isAuthorized,
                        IF isAuthorized THEN "ACCESS_GRANTED"
                                        ELSE "INSUFFICIENT_PRIVILEGES")

authorizeWorkflowAccess(profiles, credentials, workflowType) ==
  LET agencyProfile == getAgencyProfile(profiles, credentials.organizationUnit) IN
  IF agencyProfile = Absent
  THEN Decision(FALSE, "UNKNOWN_AGENCY")
  ELSE LET permitted == permittedAccessLevels(agencyProfile, workflowType) IN
       IF permitted = NotAnArray
       THEN DecisionThrown
       ELSE LET isAuthorized == includes(permitted, credentials.accessLevel) IN
            Decision(isAuthorized,
                     IF isAuthorized THEN "ACCESS_GRANTED"
                                     ELSE "INSUFFICIENT_PRIVILEGES")

\* Map.prototype.set
MapSet(map, key, value) ==
  [k \in DOMAIN map \cup {key} |-> IF k = key THEN value ELSE map[k]]

\* the registry is rebuilt around the profile being registered
registerAgencyAuthenticationProfile_Rebuild(profiles, profile) ==
  [a \in {profile.agencyId} |-> profile]

registerAgencyAuthenticationProfile_Merge(profiles, profile) ==
  IF profile.agencyId \in DOMAIN profiles
  THEN LET prior == profiles[profile.agencyId].workflowAccessControls
           merged == [w \in DOMAIN prior \cup DOMAIN profile.workflowAccessControls |->
                        IF w \in DOMAIN profile.workflowAccessControls
                        THEN profile.workflowAccessControls[w] ELSE prior[w]]
       IN MapSet(profiles, profile.agencyId,
                 [profile EXCEPT !.workflowAccessControls = merged])
  ELSE MapSet(profiles, profile.agencyId, profile)

registerAgencyAuthenticationProfile(profiles, profile) ==
  MapSet(profiles, profile.agencyId, profile)

(***************************************************************************)
(* Spec: the agency profile registry and workflow authorization            *)
(***************************************************************************)
Init ==
  /\ agencyProfiles = NoProfiles
  /\ latest = NoProfiles
  /\ now = 0
  /\ last = [op |-> "none"]
  /\ trustedRootCAs = {RootCert}
  /\ tokens = <<>>
  /\ expired = {}
  /\ workflow = Absent
  /\ visited = <<>>
  /\ agencyConfigurations = NoConfigurations
  /\ registeredConfigurations = NoConfigurations

Register(profile) ==
  /\ agencyProfiles' = registerAgencyAuthenticationProfile(agencyProfiles, profile)
  /\ latest' = [a \in DOMAIN latest \cup {profile.agencyId} |->
                  IF a = profile.agencyId THEN profile ELSE latest[a]]
  /\ last' = [op |-> "register", profile |-> profile, before |-> agencyProfiles]
  /\ UNCHANGED <<now, trustedRootCAs, tokens, expired, workflowVars>>

Authorize(credentials, workflowType) ==
  /\ last' = [op |-> "authorize", credentials |-> credentials,
              workflowType |-> workflowType,
              lookupKey |-> profileKey(credentials.organizationUnit),
              decision |-> authorizeWorkflowAccess(agencyProfiles, credentials,
                                                   workflowType)]
  /\ UNCHANGED <<agencyProfiles, latest, now, trustedRootCAs, tokens, expired, workflowVars>>

Next ==
  \/ \E profile \in AgencyAuthenticationProfile : Register(profile)
  \/ \E credentials \in AuthorizationCredentials, workflowType \in WorkflowTypes :
       Authorize(credentials, workflowType)

Spec == Init /\ [][Next]_vars

(***************************************************************************)
(* SpecAuthn: credential verification                                      *)
(***************************************************************************)
RegisterExample == Register(defenseLogisticsAgencyProfile)

Verify(credentials) ==
  /\ last' = [op |-> "verify", credentials |-> credentials, at |-> now,
              result |-> verifyCAC_PIV_Credentials(credentials, now)]
  /\ UNCHANGED <<agencyProfiles, latest, now, trustedRootCAs, tokens, expired, workflowVars>>

AppVerify(credentials) ==
  /\ last' = [op |-> "appVerify", credentials |-> credentials, at |-> now,
              result |-> AppVerifyCAC_PIV_Credentials(credentials)]
  /\ UNCHANGED <<agencyProfiles, latest, now, trustedRootCAs, tokens, expired, workflowVars>>

Tick ==
  /\ now < MaxNow
  /\ now' = now + 1
  /\ UNCHANGED <<agencyProfiles, latest, last, trustedRootCAs, tokens, expired, workflowVars>>

NextAuthn ==
  \/ RegisterExample
  \/ \E credentials \in CAC_PIV_Credentials \cup {NullCredentials} :
       Verify(credentials)
  \/ \E credentials \in CAC_PIV_Credentials \cup {NullCredentials} :
       AppVerify(credentials)
  \/ Tick

SpecAuthn == Init /\ [][NextAuthn]_vars

(***************************************************************************)
(* Properties of workflow authorization (checked under Spec)               *)
(***************************************************************************)
Range(array) == {array[i] : i \in 1..Len(array)}

AgencyOf(credentials) ==
  extractAgencyFromOrganizationalUnit(credentials.organizationUnit)

\* the levels a profile lists for a workflow type; none for an absent entry
PermittedSet(profile, workflowType) ==
  IF workflowType \in DOMAIN profile.workflowAccessControls
  THEN Range(profile.workflowAccessControls[workflowType])
  ELSE {}

RequiresSecondaryVerification(profile) ==
  \/ profile.mandatoryRoleVerification
  \/ \E i \in 1..Len(profile.additionalVerificationSteps) :
       profile.additionalVerificationSteps[i].mandatory

\* C1: whatever profiles have been registered, authorizeWorkflowAccess for a
\* credential whose agency has no registered profile returns authorized=false
\* with reason UNKNOWN_AGENCY, for every workflow type and access level.
C1_UnknownAgencyDenied ==
  /\ last.op = "authorize" /\ AgencyOf(last.credentials) \notin DOMAIN agencyProfiles
       => last.decision = Decision(FALSE, "UNKNOWN_AGENCY")
  /\ \A c \in AuthorizationCredentials, w \in WorkflowTypes :
       AgencyOf(c) \notin DOMAIN agencyProfiles
         => authorizeWorkflowAccess(agencyProfiles, c, w)
              = Decision(FALSE, "UNKNOWN_AGENCY")

\* an unregistered agency is denied a workflow that a registered agency's
\* profile grants to the same access level
C1_Witness ==
  /\ last.op = "authorize"
  /\ AgencyOf(last.credentials) \in AgencyIds \ DOMAIN agencyProfiles
  /\ \E a \in DOMAIN agencyProfiles :
       last.credentials.accessLevel
         \in PermittedSet(agencyProfiles[a], last.workflowType)
  /\ last.decision.reason = "UNKNOWN_AGENCY"

C3_SecondaryVerificationRequired ==
  last.op = "authorize" /\ AgencyOf(last.credentials) \in DOMAIN agencyProfiles
    => LET profile == agencyProfiles[AgencyOf(last.credentials)] IN
       RequiresSecondaryVerification(profile)
         => /\ ~last.decision.authorized
            /\ last.credentials.accessLevel
                 \in PermittedSet(profile, last.workflowType)
                 => last.decision.reason = "SECONDARY_VERIFICATION_REQUIRED"

C5_RegistryHoldsLatest ==
  /\ DOMAIN agencyProfiles = DOMAIN latest
  /\ \A a \in DOMAIN latest : agencyProfiles[a] = latest[a]
  /\ last.op = "authorize" /\ last.lookupKey \in DOMAIN latest
       /\ last.workflowType \notin DOMAIN latest[last.lookupKey].workflowAccessControls
       => ~last.decision.authorized
  /\ last.op = "register" /\ last.profile.agencyId \in DOMAIN last.before
       /\ last.before[last.profile.agencyId] = last.profile
       => agencyProfiles = last.before

\* version 2 of a profile has just replaced a version 1 that permitted a
\* workflow type version 2 omits, and nobody of that agency is authorized
C5_Witness ==
  /\ last.op = "register"
  /\ last.profile.agencyId \in DOMAIN last.before
  /\ \E w \in DOMAIN last.before[last.profile.agencyId].workflowAccessControls :
       /\ w \notin DOMAIN last.profile.workflowAccessControls
       /\ PermittedSet(last.before[last.profile.agencyId], w) # {}
       /\ \A c \in AuthorizationCredentials :
            AgencyOf(c) = last.profile.agencyId
              => ~authorizeWorkflowAccess(agencyProfiles, c, w).authorized

(***************************************************************************)
(* SpecChecks: the aggregation of verifyCAC_PIV_Credentials over every     *)
(* outcome of its three checks                                             *)
(***************************************************************************)
CheckMessages ==
  <<"INVALID_CERTIFICATE_CHAIN", "UNKNOWN_ORGANIZATIONAL_UNIT",
    "ACCESS_LEVEL_NOT_AUTHORIZED">>

ValidationResults ==
  { [i \in 1..3 |-> [valid |-> passed[i],
                     errorMessage |-> IF passed[i] THEN "undefined"
                                                   ELSE CheckMessages[i]]] :
      passed \in [1..3 -> BOOLEAN] }

Aggregate(credentials, validationResults) ==
  /\ last' = [op |-> "aggregate", credentials |-> credentials, at |-> now,
              validationResults |-> validationResults,
              result |-> aggregateValidation(credentials, validationResults, now)]
  /\ UNCHANGED <<agencyProfiles, latest, now, trustedRootCAs, tokens, expired, workflowVars>>

NextChecks ==
  \/ \E credentials \in AuthorizationCredentials,
        validationResults \in ValidationResults :
       Aggregate(credentials, validationResults)
  \/ Tick

SpecChecks == Init /\ [][NextChecks]_vars

(***************************************************************************)
(* SpecCert: the certificate chain validator                               *)
(***************************************************************************)
Certificates ==
  {RootCert, IntermediateCert, LeafCert, ShortLivedCert, WeakAlgorithmCert,
   NoEnciphermentCert, DefectiveCert, OtherRootCert, UnparseableCert}

CertificateChains ==
  UNION {[1..k -> Certificates] : k \in 0..MaxChainLen}
    \cup UNION {[1..k -> {RootCert, UnparseableCert}] :
                  k \in (MaxChainLen + 1)..MaxDeepChainLen}
    \cup {<<LeafCert, IntermediateCert, RootCert>>}

TrustAnchorSets == {{}, {RootCert}}

InitCert ==
  /\ agencyProfiles = NoProfiles
  /\ latest = NoProfiles
  /\ now = 0
  /\ last = [op |-> "none"]
  /\ trustedRootCAs \in TrustAnchorSets
  /\ tokens = <<>>
  /\ expired = {}
  /\ workflow = Absent
  /\ visited = <<>>
  /\ agencyConfigurations = NoConfigurations
  /\ registeredConfigurations = NoConfigurations

Validate(certificateChain, purpose) ==
  /\ last' = [op |-> "validate", certificateChain |-> certificateChain,
              purpose |-> purpose, at |-> now,
              result |-> validateCertificate(certificateChain, purpose,
                                             trustedRootCAs, now)]
  /\ UNCHANGED <<agencyProfiles, latest, now, trustedRootCAs, tokens, expired, workflowVars>>

NextCert ==
  \/ \E certificateChain \in CertificateChains, purpose \in CertificatePurpose :
       Validate(certificateChain, purpose)
  \/ Tick

SpecCert == InitCert /\ [][NextCert]_vars

(***************************************************************************)
(* Properties of credential verification                                   *)
(***************************************************************************)
IsVerification == last.op \in {"verify", "appVerify"}

\* C6: verifyCAC_PIV_Credentials is fail-closed: it never returns
\* authenticated=true for a credential whose certificate chain fails chain
\* validation with purpose AUTHENTICATION, whose organizationUnit does not
\* resolve to a known agency, or whose accessLevel is not one of the five
\* recognized levels.
C6_VerificationFailsClosed ==
  IsVerification /\ last.result.authenticated
    => /\ validateCertificate(last.credentials.certificateChain, "AUTHENTICATION",
                              trustedRootCAs, last.at).valid
       /\ AgencyOf(last.credentials) \in DOMAIN agencyProfiles
       /\ last.credentials.accessLevel \in AccessLevel

C8_FaultsCaught ==
  IsVerification
    => /\ last.result.kind = "resolved"
       /\ \/ last.credentials = NullCredentials
          \/ last.op = "verify" /\ last.credentials.organizationUnit = Undefined
          => /\ ~last.result.authenticated
             /\ last.result.errorDetails = <<"AUTHENTICATION_SYSTEM_ERROR">>
             /\ last.result.sessionToken = Absent

\* agency extraction faulted on a missing organizationUnit after the token
\* was built, and the caller got AUTHENTICATION_SYSTEM_ERROR
C8_Witness ==
  /\ last.op = "verify"
  /\ last.credentials # NullCredentials
  /\ last.credentials.organizationUnit = Undefined
  /\ Len(last.result.generated) = 1
  /\ last.result.kind = "resolved"
  /\ last.result.errorDetails = <<"AUTHENTICATION_SYSTEM_ERROR">>

\* C9: every authenticated=true result carries a session token issued by
\* the Session Token Manager: bound to the userId, agencyId and accessLevel
\* of the returned identity, with createdAt the issuance time and expiresAt
\* the issuance time plus the configured window.
C9_TokenIssuedByTokenManager ==
  IsVerification /\ last.result.authenticated
    => LET token == last.result.sessionToken
           identity == last.result.userProfile
       IN /\ {"id", "userId", "agencyId", "accessLevel", "createdAt", "expiresAt"}
               \subseteq DOMAIN token
          /\ token.userId = identity.userId
          /\ token.agencyId = identity.agency
          /\ token.accessLevel = identity.accessLevel
          /\ token.createdAt = last.at
          /\ token.expiresAt = last.at + TOKEN_EXPIRATION

(***************************************************************************)
(* Properties of the certificate chain validator                           *)
(***************************************************************************)
\* C10: validateCertificate returns valid=true only if the chain is
\* non-empty and its final certificate is in the trusted root CA set, for
\* every chain including the empty one; a chain that passes every other check
\* but whose last certificate is not a trust anchor yields UNTRUSTED_ROOT.
C10_ValidOnlyWithTrustedRoot ==
  last.op = "validate"
    => LET chain == last.certificateChain IN
       /\ last.result.valid
            => chain # <<>> /\ chain[Len(chain)] \in trustedRootCAs
       /\ /\ chain # <<>>
          /\ chain[Len(chain)] \notin trustedRootCAs
          /\ validateCertificate(chain, last.purpose,
                                 trustedRootCAs \cup {chain[Len(chain)]},
                                 last.at).valid
          => last.result.error = "UNTRUSTED_ROOT"

AllParseable(chain) == \A i \in 1..Len(chain) : chain[i].parseable

\* every certificate of the chain passes the three checks made on a
\* certificate by itself
PassesOwnChecks(chain, purpose, t) ==
  \A i \in 1..Len(chain) :
    /\ isWithinValidityPeriod(chain[i], t)
    /\ isAllowedSignatureAlgorithm(chain[i])
    /\ validateKeyUsage(chain[i], purpose)

\* the certificate nearer the root is the issuer: chain[i-1] verifies under
\* the public key of chain[i]
SignedUpward(chain) ==
  \A i \in 2..Len(chain) : validateCertificateSignature(chain[i - 1], chain[i])

FailureCodes ==
  {"CHAIN_TOO_DEEP", "CERTIFICATE_EXPIRED", "UNSUPPORTED_SIGNATURE_ALGORITHM",
   "INVALID_KEY_USAGE", "INVALID_SIGNATURE", "UNTRUSTED_ROOT", "VALIDATION_ERROR"}

\* C11: for a chain within the maximum depth the result is the failure of
\* the earliest violated check in the order validity window (over every
\* certificate), signature algorithm, key usage, signature, trusted root; so
\* a chain with any certificate outside its validity window yields
\* CERTIFICATE_EXPIRED whatever other defects the chain has.
C11_ChecksInFixedOrder ==
  last.op = "validate" /\ Len(last.certificateChain) <= MAX_CHAIN_DEPTH
    /\ AllParseable(last.certificateChain)
    => LET chain == last.certificateChain
           n == Len(chain)
       IN last.result.error =
            IF \E i \in 1..n : ~isWithinValidityPeriod(chain[i], last.at)
            THEN "CERTIFICATE_EXPIRED"
            ELSE IF \E i \in 1..n : ~isAllowedSignatureAlgorithm(chain[i])
            THEN "UNSUPPORTED_SIGNATURE_ALGORITHM"
            ELSE IF \E i \in 1..n : ~validateKeyUsage(chain[i], last.purpose)
            THEN "INVALID_KEY_USAGE"
            ELSE IF \E i \in 2..n :
                      ~validateCertificateSignature(chain[i], chain[i - 1])
            THEN "INVALID_SIGNATURE"
            ELSE IF n > 0 /\ ~verifyRootCA(chain[n], trustedRootCAs)
            THEN "UNTRUSTED_ROOT"
            ELSE NoError

\* C12: every chain longer than MAX_CHAIN_DEPTH (5) yields CHAIN_TOO_DEEP
\* and nothing else is examined, so the result is CHAIN_TOO_DEEP even when
\* the chain holds unparseable or untrusted certificates; a chain of length
\* exactly 5 is not rejected for depth.
C12_ChainTooDeep ==
  last.op = "validate"
    => /\ Len(last.certificateChain) > MAX_CHAIN_DEPTH
            => last.result = createValidationFailure("CHAIN_TOO_DEEP")
       /\ Len(last.certificateChain) <= MAX_CHAIN_DEPTH
            => last.result.error # "CHAIN_TOO_DEEP"
       /\ Len(last.certificateChain) = MAX_CHAIN_DEPTH
            /\ last.certificateChain = [i \in 1..MAX_CHAIN_DEPTH |-> RootCert]
            /\ RootCert \in trustedRootCAs
            => last.result.valid

\* a chain of six certificates, the first of which does not parse, is
\* rejected for its depth
C12_Witness ==
  /\ last.op = "validate"
  /\ Len(last.certificateChain) = MAX_CHAIN_DEPTH + 1
  /\ ~last.certificateChain[1].parseable
  /\ last.result.error = "CHAIN_TOO_DEEP"

\* C13: for every index i >= 1 of a leaf-first chain the signature check
\* verifies certificate[i-1] under the public key of certificate[i]: a chain
\* passing the earlier checks gets INVALID_SIGNATURE iff some adjacent pair
\* fails in that direction, so a correctly upward-signed chain is never
\* rejected for its signatures.
C13_SignatureVerifiedUpward ==
  last.op = "validate" /\ Len(last.certificateChain) <= MAX_CHAIN_DEPTH
    /\ AllParseable(last.certificateChain)
    /\ PassesOwnChecks(last.certificateChain, last.purpose, last.at)
    => (last.result.error = "INVALID_SIGNATURE"
          <=> ~SignedUpward(last.certificateChain))

\* C14: every chain of length 1..MAX_CHAIN_DEPTH whose certificates are all
\* within their validity window, use an allowed algorithm, carry the
\* required key usage, verify pairwise, and whose last certificate is a trust
\* anchor yields valid=true with chainLength the number of certificates.
C14_WellFormedChainIsValid ==
  last.op = "validate" /\ Len(last.certificateChain) \in 1..MAX_CHAIN_DEPTH
    /\ AllParseable(last.certificateChain)
    /\ PassesOwnChecks(last.certificateChain, last.purpose, last.at)
    /\ SignedUpward(last.certificateChain)
    /\ last.certificateChain[Len(last.certificateChain)] \in trustedRootCAs
    => /\ last.result.valid
       /\ last.result.details.chainLength = Len(last.certificateChain)

\* C15: a fault raised while parsing or checking a certificate becomes a
\* VALIDATION_ERROR failure; the result is never valid=true after a fault and
\* is always either success or one failure code of the seven.
C15_FaultsBecomeValidationError ==
  last.op = "validate"
    => LET chain == last.certificateChain
           result == last.result
       IN /\ \/ result.valid /\ result.error = NoError /\ result.details # Absent
             \/ ~result.valid /\ result.error \in FailureCodes
                  /\ result.details = Absent
          /\ result.valid => AllParseable(chain)
          /\ result.error = "VALIDATION_ERROR" => ~AllParseable(chain)
          /\ Len(chain) <= MAX_CHAIN_DEPTH
               => \A i \in 1..Len(chain) :
                    /\ ~chain[i].parseable
                    /\ AllParseable(SubSeq(chain, 1, i - 1))
                    /\ PassesOwnChecks(SubSeq(chain, 1, i - 1), last.purpose, last.at)
                    /\ \A j \in 2..(i - 1) :
                         validateCertificateSignature(chain[j], chain[j - 1])
                    => result.error = "VALIDATION_ERROR"

\* the second certificate of a chain does not parse, after a first
\* certificate that passed its checks
C15_Witness ==
  /\ last.op = "validate"
  /\ Len(last.certificateChain) = 2
  /\ last.certificateChain[1] = RootCert
  /\ ~last.certificateChain[2].parseable
  /\ last.result = createValidationFailure("VALIDATION_ERROR")

\* C16: validateCertificate is a deterministic function of its inputs (chain,
\* purpose, trust anchors, configuration): it reads no wall clock, so two
\* consecutive runs on the same chain and purpose return the same result,
\* validation timestamp included, and a run leaves the trusted root CA set
\* unchanged.
C16_ValidationDeterministic ==
  [][ /\ last.op = "validate" /\ last'.op = "validate"
        /\ last'.certificateChain = last.certificateChain
        /\ last'.purpose = last.purpose
        => last'.result = last.result
      /\ trustedRootCAs' = trustedRootCAs ]_vars

\* ---------------------------------------------------------------------
\* SecureTokenManager: tokens are issued to callers and validated later.
\* tokens is the sequence of tokens handed out so far; expired is the set
\* of their indices for which a validation has answered TOKEN_EXPIRED.

\* values of the 256-bit random token id
TokenIds == {"id1", "id2"}

UserAuthenticationContext ==
  {[userId |-> "u1", agencyId |-> <<"D">>, accessLevel |-> "STANDARD",
    ipAddress |-> "10.0.0.1", userAgent |-> "UA1", screenResolution |-> "1024x768",
    timezone |-> "UTC", installedFonts |-> "Arial"],
   [userId |-> "u2", agencyId |-> <<"O">>, accessLevel |-> "PRIVILEGED",
    ipAddress |-> "10.0.0.2", userAgent |-> "UA2", screenResolution |-> "800x600",
    timezone |-> "EST", installedFonts |-> "Courier"]}

\* the instants at which the wall clock is read: around issuance and around
\* the end of the validity window of a token issued then
Instants ==
  (0..MaxNow) \cup {TOKEN_EXPIRATION + k : k \in 0..(MaxNow + 1)}

\* sha256 over the components joined with '|'
generateDeviceFingerprint(context) ==
  [sha256 |-> <<context.userAgent, "|", context.screenResolution, "|",
                context.timezone, "|", context.installedFonts>>]

\* createdAt and expiresAt come from two reads of the clock, at t1 and t2
generateSecureToken(userContext, tokenId, t1, t2) ==
  [id |-> tokenId,
   userId |-> userContext.userId,
   agencyId |-> userContext.agencyId,
   accessLevel |-> userContext.accessLevel,
   createdAt |-> t1,
   expiresAt |-> t2 + TOKEN_EXPIRATION,
   metadata |-> [ipAddress |-> userContext.ipAddress,
                 deviceFingerprint |-> generateDeviceFingerprint(userContext)]]

TokenExpired == [valid |-> FALSE, reason |-> "TOKEN_EXPIRED"]

TokenValid(remainingValidity) ==
  [valid |-> TRUE, remainingValidity |-> remainingValidity]

\* a token expires at the instant expiresAt itself
validateToken_ExpiresAtBoundary(token, t) ==
  IF t >= token.expiresAt
  THEN [result |-> TokenExpired, token |-> token]
  ELSE [result |-> TokenValid(token.expiresAt - t), token |-> token]

\* a validation that finds the token expired refreshes it
validateToken_RefreshOnExpiry(token, t) ==
  IF t > token.expiresAt
  THEN [result |-> TokenExpired,
        token |-> [token EXCEPT !.expiresAt = t + TOKEN_EXPIRATION]]
  ELSE [result |-> TokenValid(token.expiresAt - t), token |-> token]

\* each successful validation slides the validity window
validateToken_SlidingExpiry(token, t) ==
  IF t > token.expiresAt
  THEN [result |-> TokenExpired, token |-> token]
  ELSE [result |-> TokenValid(token.expiresAt - t),
        token |-> [token EXCEPT !.expiresAt = t + TOKEN_EXPIRATION]]

\* the result of the call, and the token object as the call leaves it
validateToken(token, t) ==
  IF t > token.expiresAt
  THEN [result |-> TokenExpired, token |-> token]
  ELSE [result |-> TokenValid(token.expiresAt - t), token |-> token]

\* generateSecureToken: the clock may advance between the two reads
Issue(userContext, tokenId, t2) ==
  /\ Len(tokens) < MaxTokens
  /\ t2 \in {now, now + 1} \cap Instants
  /\ LET token == generateSecureToken(userContext, tokenId, now, t2)
     IN /\ tokens' = Append(tokens, token)
        /\ last' = [op |-> "generateSecureToken", token |-> token]
  /\ now' = t2
  /\ UNCHANGED <<agencyProfiles, latest, trustedRootCAs, expired, workflowVars>>

ValidateToken(index) ==
  /\ index \in 1..Len(tokens)
  /\ LET call == validateToken(tokens[index], now)
     IN /\ last' = [op |-> "validateToken", index |-> index,
                    token |-> tokens[index], at |-> now,
                    expiredBefore |-> index \in expired,
                    result |-> call.result, tokenAfter |-> call.token]
        /\ tokens' = [tokens EXCEPT ![index] = call.token]
        /\ expired' = IF call.result.valid THEN expired ELSE expired \cup {index}
  /\ UNCHANGED <<agencyProfiles, latest, now, trustedRootCAs, workflowVars>>

\* the wall clock moves forward to a later instant
Elapse(t) ==
  /\ t \in Instants
  /\ t > now
  /\ now' = t
  /\ UNCHANGED <<agencyProfiles, latest, last, trustedRootCAs, tokens, expired, workflowVars>>

NextToken ==
  \/ \E userContext \in UserAuthenticationContext, tokenId \in TokenIds,
        t2 \in Instants : Issue(userContext, tokenId, t2)
  \/ \E index \in 1..MaxTokens : ValidateToken(index)
  \/ \E t \in Instants : Elapse(t)

SpecToken == Init /\ [][NextToken]_vars

\* ---------------------------------------------------------------------
\* Token properties (SpecToken)

\* C17: validateToken answers TOKEN_EXPIRED iff now > expiresAt; otherwise
\* it answers valid with remainingValidity = expiresAt - now, which is never
\* negative: at now = expiresAt the token is still valid, with 0 remaining.
C17_ExpiredIffPastExpiresAt ==
  last.op = "validateToken"
    => /\ last.result = TokenExpired <=> last.at > last.token.expiresAt
       /\ last.at <= last.token.expiresAt
            => /\ last.result = TokenValid(last.token.expiresAt - last.at)
               /\ last.result.remainingValidity >= 0

\* a validation at the very instant expiresAt
C17_Witness ==
  /\ last.op = "validateToken"
  /\ last.at = last.token.expiresAt
  /\ last.result = TokenValid(0)

\* C18: every token made by generateSecureToken has expiresAt = createdAt +
\* TOKEN_EXPIRATION exactly (30 minutes), and validating it at the instant of
\* issuance answers valid with the whole window remaining.
C18_ExpiresExactlyOneWindowAfterCreation ==
  /\ \A i \in 1..Len(tokens) :
       tokens[i].expiresAt = tokens[i].createdAt + TOKEN_EXPIRATION
  /\ last.op = "validateToken" /\ last.at = last.token.createdAt
       => last.result = TokenValid(TOKEN_EXPIRATION)

\* C19: as the clock never goes back, validity is monotone: every
\* validation made while now <= expiresAt succeeds, and once a token has been
\* answered TOKEN_EXPIRED every later validation of it answers TOKEN_EXPIRED.
C19_ValidityMonotone ==
  last.op = "validateToken"
    => /\ last.at <= last.token.expiresAt => last.result.valid
       /\ last.expiredBefore => last.result = TokenExpired

\* a token already answered TOKEN_EXPIRED is validated again
C19_Witness ==
  /\ last.op = "validateToken"
  /\ last.expiredBefore
  /\ last.at > last.token.expiresAt + 1
  /\ ~last.result.valid

C21_SessionTokensDistinct ==
  [][ /\ last.op = "verify" /\ last'.op = "verify"
      /\ last.result.authenticated /\ last'.result.authenticated
      /\ last'.credentials # last.credentials
      => last'.result.sessionToken # last.result.sessionToken ]_vars

\* ---------------------------------------------------------------------
\* SpecAlias: the registry keeps the profile object it was given, so the
\* caller that registered a profile can still change that object.

\* the access-level lists a caller writes into a profile it registered
MutatedLevels == {<<>>, <<"RESTRICTED">>}

\* profile.workflowAccessControls[workflowType] = levels, on the object
\* that agencyProfiles holds for agencyId
MutateRegisteredProfile(agencyId, workflowType, levels) ==
  /\ agencyId \in DOMAIN agencyProfiles
  /\ agencyProfiles' =
       [agencyProfiles EXCEPT ![agencyId].workflowAccessControls =
          MapSet(@, workflowType, levels)]
  /\ last' = [op |-> "mutate", agencyId |-> agencyId,
              workflowType |-> workflowType, levels |-> levels]
  /\ UNCHANGED <<latest, now, trustedRootCAs, tokens, expired, workflowVars>>

NextAlias ==
  \/ \E profile \in {p \in AgencyAuthenticationProfile :
                       p.agencyId = defenseLogisticsAgencyProfile.agencyId} :
       Register(profile)
  \/ \E credentials \in AuthorizationCredentials, workflowType \in WorkflowTypes :
       Authorize(credentials, workflowType)
  \/ \E agencyId \in AgencyIds, workflowType \in {"BID_SUBMISSION", "BID_TRACKING"},
        levels \in MutatedLevels :
       MutateRegisteredProfile(agencyId, workflowType, levels)

SpecAlias == Init /\ [][NextAlias]_vars

\* C22: every authorization decision equals the decision computed against
\* one complete registered version of the profile, also after the caller has
\* changed a profile object it registered: the registry holds a snapshot of
\* what was registered.  (Calls do not overlap, so the version in force at a
\* call is the one registered last for the agency, which latest records.)
C22_DecisionAgainstRegisteredSnapshot ==
  last.op = "authorize"
    => last.decision =
         authorizeWorkflowAccess(latest, last.credentials, last.workflowType)

\* ---------------------------------------------------------------------
\* BubbleWorkflowIntegration.  A call is modelled by the sequence of the
\* calls it makes on the authentication manager and on the backend client,
\* its outcome, and the request it sent to the backend, if any.

BidSubmissionPayload == {"bid1", "bid2"}

NotEvaluated == [kind |-> "skipped", authorized |-> FALSE, reason |-> "NONE"]

\* { success: false, error }
IntegrationFailure(error) == [success |-> FALSE, error |-> error]

\* the promise of the backend client, for the request it was given
BackendResponse(request) == [success |-> TRUE, error |-> "NONE"]

ApiRequest(method, payload, sessionToken) ==
  [method |-> method, payload |-> payload, sessionToken |-> sessionToken]

IntegrationCall(calls, kind, authResult, accessDecision, result, request) ==
  [calls |-> calls, kind |-> kind, authResult |-> authResult,
   accessDecision |-> accessDecision, result |-> result, request |-> request]

\* the access decision is not consulted before the backend is called
submitBidWorkflow_NoAccessCheck(profiles, credentials, bidData, t) ==
  LET authResult == verifyCAC_PIV_Credentials(credentials, t) IN
  IF ~authResult.authenticated
  THEN IntegrationCall(<<"verifyCAC_PIV_Credentials">>, "resolved", authResult,
                       NotEvaluated, IntegrationFailure("AUTHENTICATION_FAILED"),
                       Absent)
  ELSE LET accessDecision ==
             authorizeWorkflowAccess(profiles, credentials, "BID_SUBMISSION")
           request ==
             ApiRequest("submitBidWorkflow", bidData, authResult.sessionToken)
       IN IF accessDecision.kind = "threw"
          THEN IntegrationCall(
                 <<"verifyCAC_PIV_Credentials", "authorizeWorkflowAccess">>,
                 "rejected", authResult, accessDecision,
                 IntegrationFailure("TypeError"), Absent)
          ELSE IntegrationCall(
                 <<"verifyCAC_PIV_Credentials", "authorizeWorkflowAccess",
                   "apiClient.submitBidWorkflow">>,
                 "resolved", authResult, accessDecision,
                 BackendResponse(request), request)

submitBidWorkflow(profiles, credentials, bidData, t) ==
  LET authResult == verifyCAC_PIV_Credentials(credentials, t) IN
  IF ~authResult.authenticated
  THEN IntegrationCall(<<"verifyCAC_PIV_Credentials">>, "resolved", authResult,
                       NotEvaluated, IntegrationFailure("AUTHENTICATION_FAILED"),
                       Absent)
  ELSE LET accessDecision ==
             authorizeWorkflowAccess(profiles, credentials, "BID_SUBMISSION")
           request ==
             ApiRequest("submitBidWorkflow", bidData, authResult.sessionToken)
       IN IF accessDecision.kind = "threw"
          THEN IntegrationCall(
                 <<"verifyCAC_PIV_Credentials", "authorizeWorkflowAccess">>,
                 "rejected", authResult, accessDecision,
                 IntegrationFailure("TypeError"), Absent)
          ELSE IF ~accessDecision.authorized
          THEN IntegrationCall(
                 <<"verifyCAC_PIV_Credentials", "authorizeWorkflowAccess">>,
                 "resolved", authResult, accessDecision,
                 IntegrationFailure("WORKFLOW_ACCESS_DENIED"), Absent)
          ELSE IntegrationCall(
                 <<"verifyCAC_PIV_Credentials", "authorizeWorkflowAccess",
                   "apiClient.submitBidWorkflow">>,
                 "resolved", authResult, accessDecision,
                 BackendResponse(request), request)

\* the access decision is not consulted before the backend is called
trackBidSubmissions_NoAccessCheck(profiles, credentials, t) ==
  LET authResult == verifyCAC_PIV_Credentials(credentials, t) IN
  IF credentials = NullCredentials
  THEN IntegrationCall(
         <<"verifyCAC_PIV_Credentials", "authorizeWorkflowAccess">>,
         "rejected", authResult, DecisionThrown,
         IntegrationFailure("TypeError"), Absent)
  ELSE LET accessDecision ==
             authorizeWorkflowAccess(profiles, credentials, "BID_TRACKING")
           request ==
             ApiRequest("getBidTrackingData", Absent, authResult.sessionToken)
       IN IF accessDecision.kind = "threw"
          THEN IntegrationCall(
                 <<"verifyCAC_PIV_Credentials", "authorizeWorkflowAccess">>,
                 "rejected", authResult, accessDecision,
                 IntegrationFailure("TypeError"), Absent)
          ELSE IntegrationCall(
                 <<"verifyCAC_PIV_Credentials", "authorizeWorkflowAccess",
                   "apiClient.getBidTrackingData">>,
                 "resolved", authResult, accessDecision,
                 BackendResponse(request), request)

\* authResult.authenticated is not read; for null credentials
\* authorizeWorkflowAccess throws on credentials.organizationUnit
trackBidSubmissions(profiles, credentials, t) ==
  LET authResult == verifyCAC_PIV_Credentials(credentials, t) IN
  IF credentials = NullCredentials
  THEN IntegrationCall(
         <<"verifyCAC_PIV_Credentials", "authorizeWorkflowAccess">>,
         "rejected", authResult, DecisionThrown,
         IntegrationFailure("TypeError"), Absent)
  ELSE LET accessDecision ==
             authorizeWorkflowAccess(profiles, credentials, "BID_TRACKING")
           request ==
             ApiRequest("getBidTrackingData", Absent, authResult.sessionToken)
       IN IF accessDecision.kind = "threw"
          THEN IntegrationCall(
                 <<"verifyCAC_PIV_Credentials", "authorizeWorkflowAccess">>,
                 "rejected", authResult, accessDecision,
                 IntegrationFailure("TypeError"), Absent)
          ELSE IF ~accessDecision.authorized
          THEN IntegrationCall(
                 <<"verifyCAC_PIV_Credentials", "authorizeWorkflowAccess">>,
                 "resolved", authResult, accessDecision,
                 IntegrationFailure("WORKFLOW_ACCESS_DENIED"), Absent)
          ELSE IntegrationCall(
                 <<"verifyCAC_PIV_Credentials", "authorizeWorkflowAccess",
                   "apiClient.getBidTrackingData">>,
                 "resolved", authResult, accessDecision,
                 BackendResponse(request), request)

SubmitBid(credentials, bidData) ==
  /\ last' = [op |-> "submitBidWorkflow", credentials |-> credentials,
              bidData |-> bidData, at |-> now,
              call |-> submitBidWorkflow(agencyProfiles, credentials, bidData, now)]
  /\ UNCHANGED <<agencyProfiles, latest, now, trustedRootCAs, tokens, expired, workflowVars>>

TrackBids(credentials) ==
  /\ last' = [op |-> "trackBidSubmissions", credentials |-> credentials,
              at |-> now,
              call |-> trackBidSubmissions(agencyProfiles, credentials, now)]
  /\ UNCHANGED <<agencyProfiles, latest, now, trustedRootCAs, tokens, expired, workflowVars>>

NextBubble ==
  \/ \E profile \in AgencyAuthenticationProfile : Register(profile)
  \/ \E credentials \in AuthorizationCredentials \cup {NullCredentials},
        bidData \in BidSubmissionPayload : SubmitBid(credentials, bidData)
  \/ \E credentials \in AuthorizationCredentials \cup {NullCredentials} :
       TrackBids(credentials)

SpecBubble == Init /\ [][NextBubble]_vars

CallOrder(backendMethod) ==
  <<"verifyCAC_PIV_Credentials", "authorizeWorkflowAccess", backendMethod>>

IsPrefix(s, t) == Len(s) <= Len(t) /\ s = SubSeq(t, 1, Len(s))

BackendCalled(call) == call.request # Absent

\* C23: submitBidWorkflow calls the backend submit only after
\* verifyCAC_PIV_Credentials returned authenticated=true and then
\* authorizeWorkflowAccess(credentials, 'BID_SUBMISSION') returned
\* authorized=true, in that order; a failed authentication gives
\* AUTHENTICATION_FAILED without authorization being evaluated or the backend
\* called, a denied authorization gives WORKFLOW_ACCESS_DENIED without the
\* backend called.
C23_SubmitAfterAuthenticationThenAuthorization ==
  last.op = "submitBidWorkflow"
    => LET call == last.call
           authResult == verifyCAC_PIV_Credentials(last.credentials, last.at)
       IN /\ IsPrefix(call.calls, CallOrder("apiClient.submitBidWorkflow"))
          /\ call.authResult = authResult
          /\ ~authResult.authenticated
               => /\ call.calls = <<"verifyCAC_PIV_Credentials">>
                  /\ call.result = IntegrationFailure("AUTHENTICATION_FAILED")
                  /\ ~BackendCalled(call)
          /\ authResult.authenticated
               => LET accessDecision ==
                        authorizeWorkflowAccess(agencyProfiles, last.credentials,
                                                "BID_SUBMISSION")
                  IN /\ call.accessDecision = accessDecision
                     /\ BackendCalled(call) <=> accessDecision.authorized
                     /\ BackendCalled(call)
                          => /\ call.calls = CallOrder("apiClient.submitBidWorkflow")
                             /\ call.request =
                                  ApiRequest("submitBidWorkflow", last.bidData,
                                             authResult.sessionToken)
                     /\ accessDecision.kind = "returned" /\ ~accessDecision.authorized
                          => /\ call.calls =
                                  SubSeq(CallOrder("apiClient.submitBidWorkflow"), 1, 2)
                             /\ call.result =
                                  IntegrationFailure("WORKFLOW_ACCESS_DENIED")

\* an authenticated credential whose access level the agency does not
\* permit for BID_SUBMISSION is refused without a backend call
C23_Witness ==
  /\ last.op = "submitBidWorkflow"
  /\ last.call.authResult.authenticated
  /\ last.call.accessDecision = Decision(FALSE, "INSUFFICIENT_PRIVILEGES")
  /\ last.call.result = IntegrationFailure("WORKFLOW_ACCESS_DENIED")
  /\ ~BackendCalled(last.call)

C25_AgencyIsolation ==
  /\ last.op = "register"
       => /\ DOMAIN agencyProfiles = DOMAIN last.before \cup {last.profile.agencyId}
          /\ \A b \in DOMAIN last.before \ {last.profile.agencyId} :
               agencyProfiles[b] = last.before[b]
          /\ \A c \in AuthorizationCredentials, w \in WorkflowTypes :
               AgencyOf(c) # last.profile.agencyId
                 => authorizeWorkflowAccess(agencyProfiles, c, w)
                      = authorizeWorkflowAccess(last.before, c, w)
  /\ last.op = "authorize" => agencyProfiles = latest

\* the profile of one agency has just been replaced by a different one
\* while another agency is registered and has an authorized credential
C25_Witness ==
  /\ last.op = "register"
  /\ last.profile.agencyId \in DOMAIN last.before
  /\ last.before[last.profile.agencyId] # last.profile
  /\ \E c \in AuthorizationCredentials, w \in WorkflowTypes :
       /\ AgencyOf(c) \in DOMAIN last.before \ {last.profile.agencyId}
       /\ authorizeWorkflowAccess(agencyProfiles, c, w).authorized

\* ---------------------------------------------------------------------
\* BidWorkflow and BidEvaluationEngine.processBidWorkflow.  workflow is
\* the BidWorkflow object under observation, visited the sequence of the
\* states it has been in.

VendorBid == {"bidA", "bidB"}

WorkflowState ==
  <<"INITIAL", "VALIDATION", "SCREENING", "EVALUATION", "NEGOTIATION",
    "FINALIZATION">>

\* new BidWorkflow(bid)
BidWorkflow(bid) == [currentState |-> "INITIAL", bid |-> bid]

validate(w) == [w EXCEPT !.currentState = "VALIDATION"]

screen(w) == [w EXCEPT !.currentState = "SCREENING"]

evaluate(w) == [w EXCEPT !.currentState = "EVALUATION"]

negotiate(w) == [w EXCEPT !.currentState = "NEGOTIATION"]

finalize(w) == [w EXCEPT !.currentState = "FINALIZATION"]

StageMethods == {"validate", "screen", "evaluate", "negotiate", "finalize"}

callStage(method, w) ==
  CASE method = "validate" -> validate(w)
    [] method = "screen" -> screen(w)
    [] method = "evaluate" -> evaluate(w)
    [] method = "negotiate" -> negotiate(w)
    [] method = "finalize" -> finalize(w)

\* 'PENDING' | 'ACCEPTED' | 'REJECTED' is a bitwise OR of three strings
\* that are not numbers
determineFinalOutcome(w) == 0

getResult(w) ==
  [finalState |-> w.currentState, bidOutcome |-> determineFinalOutcome(w)]

NewBidWorkflow(bid) ==
  /\ workflow' = BidWorkflow(bid)
  /\ visited' = <<BidWorkflow(bid).currentState>>
  /\ last' = [op |-> "new BidWorkflow", bid |-> bid]
  /\ UNCHANGED <<agencyProfiles, latest, now, trustedRootCAs, tokens, expired,
                 agencyConfigurations, registeredConfigurations>>

StageCall(method) ==
  /\ workflow # Absent
  /\ Len(visited) <= MaxStageCalls
  /\ workflow' = callStage(method, workflow)
  /\ visited' = Append(visited, callStage(method, workflow).currentState)
  /\ last' = [op |-> "stage", method |-> method, before |-> workflow.currentState]
  /\ UNCHANGED <<agencyProfiles, latest, now, trustedRootCAs, tokens, expired,
                 agencyConfigurations, registeredConfigurations>>

GetResult ==
  /\ workflow # Absent
  /\ last' = [op |-> "getResult", result |-> getResult(workflow)]
  /\ UNCHANGED <<agencyProfiles, latest, now, trustedRootCAs, tokens, expired,
                 workflowVars>>

\* new BidWorkflow(bid), the five chained stage calls, getResult()
ProcessBidWorkflow(bid) ==
  LET w0 == BidWorkflow(bid)
      w1 == validate(w0)
      w2 == screen(w1)
      w3 == evaluate(w2)
      w4 == negotiate(w3)
      w5 == finalize(w4)
  IN /\ workflow' = w5
     /\ visited' = <<w0.currentState, w1.currentState, w2.currentState,
                     w3.currentState, w4.currentState, w5.currentState>>
     /\ last' = [op |-> "processBidWorkflow", bid |-> bid, result |-> getResult(w5)]
     /\ UNCHANGED <<agencyProfiles, latest, now, trustedRootCAs, tokens, expired,
                    agencyConfigurations, registeredConfigurations>>

NextBid ==
  \/ \E bid \in VendorBid : NewBidWorkflow(bid)
  \/ \E method \in StageMethods : StageCall(method)
  \/ GetResult
  \/ \E bid \in VendorBid : ProcessBidWorkflow(bid)

SpecBid == Init /\ [][NextBid]_vars

StageRank(state) == CHOOSE i \in 1..Len(WorkflowState) : WorkflowState[i] = state

\* C26: for any sequence of stage-method calls on a BidWorkflow the state
\* only advances along INITIAL, VALIDATION, SCREENING, EVALUATION,
\* NEGOTIATION, FINALIZATION: no call moves the workflow back to an earlier
\* stage, FINALIZATION is reached only after VALIDATION, SCREENING and
\* EVALUATION have each been entered in that order, and processBidWorkflow
\* visits the stages in that order and reports finalState = FINALIZATION.
C26_StagesOnlyAdvance ==
  /\ \A i \in 1..(Len(visited) - 1) :
       StageRank(visited[i]) <= StageRank(visited[i + 1])
  /\ workflow # Absent /\ workflow.currentState = "FINALIZATION"
       => \E i, j, k \in 1..Len(visited) :
            /\ i < j /\ j < k
            /\ visited[i] = "VALIDATION"
            /\ visited[j] = "SCREENING"
            /\ visited[k] = "EVALUATION"
  /\ last.op = "processBidWorkflow"
       => /\ visited = WorkflowState
          /\ last.result.finalState = "FINALIZATION"

\* ---------------------------------------------------------------------
\* AdaptiveWorkflowEngine.  agencyConfigurations is the engine's Map;
\* registeredConfigurations records, per agency id, the configuration
\* passed to the most recent registerAgencyWorkflow call.

WorkflowCategory == {"PROCUREMENT", "HUMAN_RESOURCES", "PERSONNEL_MANAGEMENT"}

AgencySpecificRule ==
  {[ruleId |-> "DLA_PROCUREMENT_001",
    description |-> "Defense Supply Chain Procurement Workflow",
    applicableWorkflows |-> <<"PROCUREMENT">>,
    complianceChecks |-> <<>>, automationPriority |-> 9],
   [ruleId |-> "OPM_USAJOBS_001",
    description |-> "Federal Job Posting and Application Workflow",
    applicableWorkflows |-> <<"HUMAN_RESOURCES", "PERSONNEL_MANAGEMENT">>,
    complianceChecks |-> <<"USAJOBS">>, automationPriority |-> 8],
   [ruleId |-> "GENERAL_001",
    description |-> "Record retention",
    applicableWorkflows |-> <<"PERSONNEL_MANAGEMENT", "PROCUREMENT">>,
    complianceChecks |-> <<"RETENTION">>, automationPriority |-> 1]}

WorkflowAgencyIds == {"DLA_001", "OPM_001"}

UnregisteredAgencyId == "GSA_001"

AgencyWorkflowConfiguration ==
  [agencyId : WorkflowAgencyIds,
   specificRules : UNION {[1..k -> AgencySpecificRule] : k \in 0..MaxRules}]

registerAgencyWorkflow(configurations, config) ==
  MapSet(configurations, config.agencyId, config)

\* rules.map(rule => ({ruleId, description, complianceChecks}))
WorkflowStep(rule) ==
  [ruleId |-> rule.ruleId, description |-> rule.description,
   complianceChecks |-> rule.complianceChecks]

constructWorkflow(agencyConfig, rules) ==
  [kind |-> "returned", agencyId |-> agencyConfig.agencyId,
   workflowSteps |-> [i \in 1..Len(rules) |-> WorkflowStep(rules[i])]]

NoConfigurationFound(agencyId) ==
  [kind |-> "threw",
   error |-> <<"No configuration found for agency: ", agencyId>>]

\* an agency without a configuration gets a workflow without steps
generateWorkflowForAgency_DefaultWorkflow(configurations, agencyId, workflowType) ==
  IF agencyId \notin DOMAIN configurations
  THEN constructWorkflow([agencyId |-> agencyId], <<>>)
  ELSE LET agencyConfig == configurations[agencyId]
           applicableRules ==
             SelectSeq(agencyConfig.specificRules,
                       LAMBDA rule : includes(rule.applicableWorkflows, workflowType))
       IN constructWorkflow(agencyConfig, applicableRules)

generateWorkflowForAgency(configurations, agencyId, workflowType) ==
  IF agencyId \notin DOMAIN configurations
  THEN NoConfigurationFound(agencyId)
  ELSE LET agencyConfig == configurations[agencyId]
           applicableRules ==
             SelectSeq(agencyConfig.specificRules,
                       LAMBDA rule : includes(rule.applicableWorkflows, workflowType))
       IN constructWorkflow(agencyConfig, applicableRules)

RegisterAgencyWorkflow(config) ==
  /\ agencyConfigurations' = registerAgencyWorkflow(agencyConfigurations, config)
  /\ registeredConfigurations' =
       [a \in DOMAIN registeredConfigurations \cup {config.agencyId} |->
          IF a = config.agencyId THEN config ELSE registeredConfigurations[a]]
  /\ last' = [op |-> "registerAgencyWorkflow", config |-> config]
  /\ UNCHANGED <<agencyProfiles, latest, now, trustedRootCAs, tokens, expired,
                 workflow, visited>>

GenerateWorkflowForAgency(agencyId, workflowType) ==
  /\ last' = [op |-> "generateWorkflowForAgency", agencyId |-> agencyId,
              workflowType |-> workflowType,
              result |-> generateWorkflowForAgency(agencyConfigurations, agencyId,
                                                   workflowType)]
  /\ UNCHANGED <<agencyProfiles, latest, now, trustedRootCAs, tokens, expired,
                 workflowVars>>

NextEngine ==
  \/ \E config \in AgencyWorkflowConfiguration : RegisterAgencyWorkflow(config)
  \/ \E agencyId \in WorkflowAgencyIds \cup {UnregisteredAgencyId},
        workflowType \in WorkflowCategory :
       GenerateWorkflowForAgency(agencyId, workflowType)

SpecEngine == Init /\ [][NextEngine]_vars

\* the positions of the rules that name the workflow type
ApplicablePositions(rules, workflowType) ==
  {i \in 1..Len(rules) : workflowType \in Range(rules[i].applicableWorkflows)}

\* C27: generateWorkflowForAgency fails with an error for every agencyId
\* without a registered configuration, never returning a default workflow;
\* otherwise it returns the agency's id with one workflow step for exactly
\* those rules of the most recently registered configuration whose
\* applicableWorkflows contains the requested workflowType, in rule order;
\* the call leaves the registry unchanged.
C27_WorkflowFromLatestConfiguration ==
  last.op = "generateWorkflowForAgency"
    => /\ agencyConfigurations = registeredConfigurations
       /\ last.agencyId \notin DOMAIN registeredConfigurations
            => last.result = NoConfigurationFound(last.agencyId)
       /\ last.agencyId \in DOMAIN registeredConfigurations
            => LET rules == registeredConfigurations[last.agencyId].specificRules
                   positions == ApplicablePositions(rules, last.workflowType)
                   steps == last.result.workflowSteps
               IN /\ last.result.kind = "returned"
                  /\ last.result.agencyId = last.agencyId
                  /\ Len(steps) = Cardinality(positions)
                  /\ \A i \in positions :
                       steps[Cardinality({j \in positions : j <= i})]
                         = WorkflowStep(rules[i])

\* a workflow of one step from a configuration of two rules that replaced
\* an earlier registration; the rule left out does not name the workflow type
C27_Witness ==
  /\ last.op = "generateWorkflowForAgency"
  /\ last.agencyId \in DOMAIN registeredConfigurations
  /\ Len(registeredConfigurations[last.agencyId].specificRules) = 2
  /\ Len(last.result.workflowSteps) = 1
  /\ last.result.workflowSteps[1] =
       WorkflowStep(registeredConfigurations[last.agencyId].specificRules[2])

====
